---- MODULE Spec2Model ----
(***************************************************************************)
(* Model of Backend/server/main.py: the Repo Analyzer API.                 *)
(*                                                                         *)
(* Python strings are modelled as sequences of one-character strings, so   *)
(* that str.lower, str.strip, str.rstrip(chars), str.replace, str.split,   *)
(* str.startswith, str.endswith, "in" and str.splitlines are computed the  *)
(* way Python computes them.                                               *)
(***************************************************************************)
EXTENDS Integers, Sequences, FiniteSets, TLC

VARIABLES
    pc,             \* position of the request in its handler
    repo_url,       \* request.repo_url
    max_lines,      \* request.max_lines
    owner,          \* analyze_repo: owner
    repo,           \* analyze_repo: repo
    calls,          \* how many times each remote call has been issued
    tree_resp,      \* analyze_repo: tree_resp
    file_paths,     \* analyze_repo: file_paths (blob paths of the tree)
    relevant_paths, \* analyze_repo: relevant_paths
    pending,        \* relevant paths the "for filepath" loop has not reached
    content_resp,   \* analyze_repo: content_resp of the current iteration
    results,        \* analyze_repo: results
    llm,            \* outcome of llm.invoke
    status,         \* HTTP status of the response (0: none yet)
    detail,         \* HTTPException detail
    body,           \* response body
    arg,            \* arguments of the helper under test
    ret             \* its return value

vars == <<pc, repo_url, max_lines, owner, repo, calls, tree_resp, file_paths,
          relevant_paths, pending, content_resp, results, llm, status, detail,
          body, arg, ret>>

None == "None"

(***************************************************************************)
(* Python str operations on character sequences                            *)
(***************************************************************************)
LowerAlphabet == <<"a", "b", "c", "d", "e", "f", "g", "h", "i", "j", "k", "l", "m",
                   "n", "o", "p", "q", "r", "s", "t", "u", "v", "w", "x", "y", "z">>
UpperAlphabet == <<"A", "B", "C", "D", "E", "F", "G", "H", "I", "J", "K", "L", "M",
                   "N", "O", "P", "Q", "R", "S", "T", "U", "V", "W", "X", "Y", "Z">>
Digits == <<"0", "1", "2", "3", "4", "5", "6", "7", "8", "9">>

Range(s) == {s[i] : i \in DOMAIN s}

\* str.lower on one character
LowerChar(c) ==
    IF \E i \in DOMAIN UpperAlphabet : UpperAlphabet[i] = c
    THEN LowerAlphabet[CHOOSE i \in DOMAIN UpperAlphabet : UpperAlphabet[i] = c]
    ELSE c

\* str.lower
Lower(s) == [i \in DOMAIN s |-> LowerChar(s[i])]

\* s.startswith(p)
StartsWith(s, p) == Len(p) <= Len(s) /\ SubSeq(s, 1, Len(p)) = p

\* s.endswith(p)
EndsWith(s, p) == Len(p) <= Len(s) /\ SubSeq(s, Len(s) - Len(p) + 1, Len(s)) = p

\* sub in s
Contains(s, sub) ==
    \E i \in 1..(Len(s) - Len(sub) + 1) : SubSeq(s, i, i + Len(sub) - 1) = sub

Whitespace == {" ", "\t", "\n", "\r"}

RECURSIVE LStripChars(_, _)
LStripChars(s, chars) ==
    IF s # <<>> /\ Head(s) \in chars THEN LStripChars(Tail(s), chars) ELSE s

\* s.rstrip(chars): drops every trailing character that is in the SET chars
RECURSIVE RStripChars(_, _)
RStripChars(s, chars) ==
    IF s # <<>> /\ s[Len(s)] \in chars
    THEN RStripChars(SubSeq(s, 1, Len(s) - 1), chars)
    ELSE s

\* s.strip()
Strip(s) == RStripChars(LStripChars(s, Whitespace), Whitespace)

\* s.replace(old, ""), old non-empty: every occurrence is removed, left to right
RECURSIVE RemoveAll(_, _)
RemoveAll(s, old) ==
    IF s = <<>> THEN <<>>
    ELSE IF StartsWith(s, old)
         THEN RemoveAll(SubSeq(s, Len(old) + 1, Len(s)), old)
         ELSE <<Head(s)>> \o RemoveAll(Tail(s), old)

\* s.split(sep) for a one-character sep: a list of Len >= 1
RECURSIVE SplitAcc(_, _, _)
SplitAcc(s, sep, cur) ==
    IF s = <<>> THEN <<cur>>
    ELSE IF Head(s) = sep
         THEN <<cur>> \o SplitAcc(Tail(s), sep, <<>>)
         ELSE SplitAcc(Tail(s), sep, Append(cur, Head(s)))

Split(s, sep) == SplitAcc(s, sep, <<>>)

(***************************************************************************)
(* RepoAnalysisRequest.validate_github_url and parse_owner_repo            *)
(***************************************************************************)
GithubPrefix == <<"h", "t", "t", "p", "s", ":", "/", "/", "g", "i", "t", "h", "u",
                  "b", ".", "c", "o", "m", "/">>
DotGit == <<".", "g", "i", "t">>

\* the character class [a-zA-Z0-9_.-]
UrlClass == Range(LowerAlphabet) \cup Range(UpperAlphabet) \cup Range(Digits)
            \cup {"_", ".", "-"}

\* Every way the pattern
\*   ^https://github\.com/([a-zA-Z0-9_.-]+)/([a-zA-Z0-9_.-]+?)(?:\.git)?$
\* can match v, as <<group 1, group 2>>.
PatternMatches(v) ==
    IF ~StartsWith(v, GithubPrefix) THEN {}
    ELSE LET rest == SubSeq(v, Len(GithubPrefix) + 1, Len(v))
         IN {<<SubSeq(rest, 1, i - 1), SubSeq(rest, i + 1, j)>> :
                <<i, j>> \in
                  {ij \in (1..Len(rest)) \X (1..Len(rest)) :
                     /\ rest[ij[1]] = "/"
                     /\ ij[1] > 1
                     /\ ij[2] > ij[1]
                     /\ Range(SubSeq(rest, 1, ij[1] - 1)) \subseteq UrlClass
                     /\ Range(SubSeq(rest, ij[1] + 1, ij[2])) \subseteq UrlClass
                     /\ SubSeq(rest, ij[2] + 1, Len(rest)) \in {<<>>, DotGit}}}

\* The groups re.match returns: group 2 is lazy, so the shortest one wins.
PatternGroups(v) ==
    CHOOSE m \in PatternMatches(v) :
        \A n \in PatternMatches(v) : Len(m[2]) <= Len(n[2])

\* validate_github_url: the value the field takes; ok is FALSE when it raises
validate_github_url(v) ==
    LET s == Strip(v) IN
    IF ~StartsWith(s, GithubPrefix) THEN [ok |-> FALSE, value |-> s]
    ELSE IF PatternMatches(s) = {} THEN [ok |-> FALSE, value |-> s]
    ELSE [ok |-> TRUE, value |-> s]

\* parse_owner_repo: parts[0], parts[1]; ok is FALSE when parts[1] raises
parse_owner_repo(url) ==
    LET parts == Split(RStripChars(RemoveAll(url, GithubPrefix), Range(DotGit)), "/")
    IN IF Len(parts) < 2
       THEN [ok |-> FALSE, owner |-> <<>>, repo |-> <<>>]
       ELSE [ok |-> TRUE, owner |-> parts[1], repo |-> parts[2]]

(***************************************************************************)
(* analyze_repo: the relevance filter (lines 175-205)                      *)
(***************************************************************************)
RELEVANT_FILES ==
    [common |->
        {<<"d", "o", "c", "k", "e", "r", "f", "i", "l", "e">>,
         <<".", "d", "o", "c", "k", "e", "r", "/", "d", "o", "c", "k", "e", "r",
           "f", "i", "l", "e">>,
         <<"d", "o", "c", "k", "e", "r", "-", "c", "o", "m", "p", "o", "s", "e",
           ".", "y", "m", "l">>,
         <<"j", "e", "n", "k", "i", "n", "s", "f", "i", "l", "e">>,
         <<".", "g", "i", "t", "l", "a", "b", "-", "c", "i", ".", "y", "m", "l">>,
         <<"a", "z", "u", "r", "e", "-", "p", "i", "p", "e", "l", "i", "n", "e",
           "s", ".", "y", "m", "l">>,
         <<".", "c", "i", "r", "c", "l", "e", "c", "i", "/", "c", "o", "n", "f",
           "i", "g", ".", "y", "m", "l">>,
         <<"r", "e", "a", "d", "m", "e", ".", "m", "d">>},
     node |->
        {<<"p", "a", "c", "k", "a", "g", "e", ".", "j", "s", "o", "n">>,
         <<"y", "a", "r", "n", ".", "l", "o", "c", "k">>,
         <<"p", "n", "p", "m", "-", "l", "o", "c", "k", ".", "y", "a", "m", "l">>,
         <<"p", "a", "c", "k", "a", "g", "e", "-", "l", "o", "c", "k", ".", "j",
           "s", "o", "n">>},
     python |->
        {<<"r", "e", "q", "u", "i", "r", "e", "m", "e", "n", "t", "s", ".", "t",
           "x", "t">>,
         <<"p", "i", "p", "f", "i", "l", "e">>,
         <<"p", "i", "p", "f", "i", "l", "e", ".", "l", "o", "c", "k">>,
         <<"p", "y", "p", "r", "o", "j", "e", "c", "t", ".", "t", "o", "m", "l">>,
         <<"p", "o", "e", "t", "r", "y", ".", "l", "o", "c", "k">>},
     java |->
        {<<"p", "o", "m", ".", "x", "m", "l">>,
         <<"b", "u", "i", "l", "d", ".", "g", "r", "a", "d", "l", "e">>,
         <<"s", "e", "t", "t", "i", "n", "g", "s", ".", "g", "r", "a", "d", "l",
           "e">>,
         <<"g", "r", "a", "d", "l", "e", "w">>,
         <<"g", "r", "a", "d", "l", "e", "w", ".", "b", "a", "t">>}]

LARGE_FILE_SUFFIXES ==
    {<<".", "l", "o", "c", "k">>,
     <<"p", "a", "c", "k", "a", "g", "e", "-", "l", "o", "c", "k", ".", "j", "s",
       "o", "n">>,
     <<"y", "a", "r", "n", ".", "l", "o", "c", "k">>,
     <<"p", "n", "p", "m", "-", "l", "o", "c", "k", ".", "y", "a", "m", "l">>,
     <<"p", "o", "e", "t", "r", "y", ".", "l", "o", "c", "k">>}

WorkflowsDir == <<".", "g", "i", "t", "h", "u", "b", "/", "w", "o", "r", "k", "f",
                  "l", "o", "w", "s", "/">>
YamlSuffixes == {<<".", "y", "m", "l">>, <<".", "y", "a", "m", "l">>}

\* MatchesLangFiles without the "/<name>" suffix rule
MatchesLangFiles_ExactOnly(lower_path) ==
    \E group \in DOMAIN RELEVANT_FILES : lower_path \in RELEVANT_FILES[group]

\* the last branch of the loop body: for lang_files in RELEVANT_FILES.values()
MatchesLangFiles(lower_path) ==
    \E group \in DOMAIN RELEVANT_FILES :
        \/ lower_path \in RELEVANT_FILES[group]
        \/ \E f \in RELEVANT_FILES[group] : EndsWith(lower_path, <<"/">> \o f)

\* whether the loop over file_paths adds path to relevant_paths
IsRelevant(path) ==
    LET lower_path == Lower(path) IN
    \/ lower_path \in RELEVANT_FILES.common
    \/ /\ StartsWith(lower_path, WorkflowsDir)
       /\ \E y \in YamlSuffixes : EndsWith(lower_path, y)
    \/ MatchesLangFiles(lower_path)

RelevantPaths(paths) == {p \in paths : IsRelevant(p)}

(***************************************************************************)
(* analyze_repo: the lockfile filter (lines 227-234)                       *)
(***************************************************************************)
LineBreaks == {"\n", "\r", "\f"}

\* str.splitlines(): "\r\n" is one break, and a final break opens no line
RECURSIVE SplitLinesAcc(_, _)
SplitLinesAcc(s, cur) ==
    IF s = <<>> THEN (IF cur = <<>> THEN <<>> ELSE <<cur>>)
    ELSE IF Head(s) \in LineBreaks
         THEN LET rest == IF Head(s) = "\r" /\ Len(s) > 1 /\ s[2] = "\n"
                          THEN Tail(Tail(s)) ELSE Tail(s)
              IN <<cur>> \o SplitLinesAcc(rest, <<>>)
         ELSE SplitLinesAcc(Tail(s), Append(cur, Head(s)))

SplitLines(s) == SplitLinesAcc(s, <<>>)

\* "\n".join(lines)
RECURSIVE JoinLines(_)
JoinLines(lines) ==
    IF lines = <<>> THEN <<>>
    ELSE IF Len(lines) = 1 THEN lines[1]
    ELSE lines[1] \o <<"\n">> \o JoinLines(Tail(lines))

\* lst[:n]
Take(lst, n) == SubSeq(lst, 1, IF n < Len(lst) THEN n ELSE Len(lst))

VersionWord == <<"v", "e", "r", "s", "i", "o", "n">>
ResolvedWord == <<"r", "e", "s", "o", "l", "v", "e", "d">>

\* the condition of the important_lines comprehension
IsImportantLine(line) ==
    \/ Contains(Lower(line), VersionWord)
    \/ Contains(line, <<"@">>)
    \/ Contains(Lower(line), ResolvedWord)

IsLargeFile(filepath) ==
    \E suffix \in LARGE_FILE_SUFFIXES : EndsWith(Lower(filepath), suffix)

\* Condense with important_lines left uncut
Condense_Uncapped(filepath, content, maxLines) ==
    IF IsLargeFile(filepath)
    THEN LET lines == SplitLines(content)
             important_lines == SelectSeq(lines, IsImportantLine)
         IN JoinLines(IF important_lines # <<>> THEN important_lines
                      ELSE Take(lines, maxLines))
    ELSE content

\* Condense with the filter applied to every file
Condense_AnyFile(filepath, content, maxLines) ==
    LET lines == SplitLines(content)
        important_lines == SelectSeq(lines, IsImportantLine)
        kept == Take(important_lines, maxLines)
    IN JoinLines(IF kept # <<>> THEN kept ELSE Take(lines, maxLines))

\* the content stored in results[filepath] for the decoded content
Condense(filepath, content, maxLines) ==
    IF IsLargeFile(filepath)
    THEN LET lines == SplitLines(content)
             important_lines == SelectSeq(lines, IsImportantLine)
             kept == Take(important_lines, maxLines)
         IN JoinLines(IF kept # <<>> THEN kept ELSE Take(lines, maxLines))
    ELSE content

(***************************************************************************)
(* extract_json_from_llm_output (lines 113-121)                            *)
(*                                                                         *)
(* The LLM's text is a sequence of lexical tokens: the fence of three backticks, the tag  *)
(* json, whitespace, the JSON punctuation, a JSON array, prose, and one    *)
(* token per "key": value member.                                          *)
(***************************************************************************)
FENCE == "<fence>"
TAG == "json"
WS == " "
LBRACE == "{"
RBRACE == "}"
COMMA == ","
ARRAY == "[]"
PROSE == "Sure, here it is"

\* the member tokens: "key": value
Members ==
    [yaml_str |-> [key |-> "github_actions_yaml", value |-> "str"],
     yaml_null |-> [key |-> "github_actions_yaml", value |-> "null"],
     manual_str |-> [key |-> "manual_instructions", value |-> "str"],
     suggestions_list |-> [key |-> "suggestions", value |-> "list"],
     analysis_dict |-> [key |-> "project_analysis", value |-> "dict"],
     steps_list |-> [key |-> "ci_pipeline_steps", value |-> "list"]]

IsMember(tok) == tok \in DOMAIN Members

\* the first index >= k of text that holds no whitespace (Len(text) + 1: none)
RECURSIVE SkipWS(_, _)
SkipWS(text, k) ==
    IF k <= Len(text) /\ text[k] = WS THEN SkipWS(text, k + 1) ELSE k

TokenAt(text, k) == IF k \in DOMAIN text THEN text[k] ELSE ""

\* <fence>(?:json)?\s*( : where group 1 would start for a match beginning at i
GroupStart(text, i) ==
    SkipWS(text, IF TokenAt(text, i + 1) = TAG THEN i + 2 ELSE i + 1)

\* the ends j of {.*?}\s*<fence> for a group starting at a
GroupEnds(text, a) ==
    {j \in (a + 1)..Len(text) :
        text[j] = RBRACE /\ TokenAt(text, SkipWS(text, j + 1)) = FENCE}

\* the starts i at which <fence>(?:json)?\s*({.*?})\s*<fence> matches
FenceStarts(text) ==
    {i \in DOMAIN text :
        /\ text[i] = FENCE
        /\ TokenAt(text, GroupStart(text, i)) = LBRACE
        /\ GroupEnds(text, GroupStart(text, i)) # {}}

Min(S) == CHOOSE x \in S : \A y \in S : x <= y

\* json_str: group 1 of the leftmost match, lazily ended, else text.strip()
JsonCandidate(text) ==
    IF FenceStarts(text) # {}
    THEN LET a == GroupStart(text, Min(FenceStarts(text)))
         IN SubSeq(text, a, Min(GroupEnds(text, a)))
    ELSE Strip(text)

\* the members of an object body: member (, member)*
RECURSIVE IsMemberList(_)
IsMemberList(toks) ==
    /\ toks # <<>>
    /\ IsMember(toks[1])
    /\ \/ Len(toks) = 1
       \/ /\ Len(toks) >= 3
          /\ toks[2] = COMMA
          /\ IsMemberList(SubSeq(toks, 3, Len(toks)))

\* the dict of a member list; a repeated key keeps its last value
RECURSIVE MembersDict(_)
MembersDict(toks) ==
    IF toks = <<>> THEN <<>>
    ELSE IF IsMember(toks[Len(toks)])
         THEN LET m == Members[toks[Len(toks)]]
                  front == MembersDict(SubSeq(toks, 1, Len(toks) - 1))
              IN IF m.key \in DOMAIN front THEN front
                 ELSE (m.key :> m.value) @@ front
         ELSE MembersDict(SubSeq(toks, 1, Len(toks) - 1))

IsNotWS(tok) == tok # WS

ParseError == [ok |-> FALSE, kind |-> "JSONDecodeError", items |-> <<>>]

\* json.loads: whitespace between tokens is insignificant
JsonLoads(json_str) ==
    LET toks == SelectSeq(json_str, IsNotWS) IN
    IF toks = <<ARRAY>> THEN [ok |-> TRUE, kind |-> "list", items |-> <<>>]
    ELSE IF Len(toks) >= 2 /\ toks[1] = LBRACE /\ toks[Len(toks)] = RBRACE
         THEN LET inner == SubSeq(toks, 2, Len(toks) - 1)
              IN IF inner = <<>> \/ IsMemberList(inner)
                 THEN [ok |-> TRUE, kind |-> "dict", items |-> MembersDict(inner)]
                 ELSE ParseError
         ELSE ParseError

\* the dict (or other JSON value) returned, or ParseError for the ValueError
extract_json_from_llm_output(text) == JsonLoads(JsonCandidate(text))

(***************************************************************************)
(* Bounds of the model                                                     *)
(***************************************************************************)
\* Field(300, ge=10, le=100000) of max_lines
MinMaxLines == 10
MaxMaxLines == 100000
\* the largest max_lines a modelled request carries
MaxLinesHi == 11
\* the most lines a lockfile given to the filter has
MaxContentLines == 11

(***************************************************************************)
(* The lockfile filter applied to bounded inputs                           *)
(***************************************************************************)
ImportantSamples == << <<"V", "e", "r", "s", "i", "o", "n", " ", "1">>,
                       <<"a", "@", "1">>,
                       <<"R", "E", "S", "O", "L", "V", "E", "D">> >>
PlainSamples == << <<"x">>, <<>>, <<"v", "e", "r", "s">> >>

\* line i of a sample file whose important lines are those numbered in S
SampleLine(i, S) ==
    IF i \in S THEN ImportantSamples[(i % 3) + 1] ELSE PlainSamples[(i % 3) + 1]

\* n lines, the odd ones ended by the line break brk and the even ones by "\n"
RECURSIVE SampleContent(_, _, _)
SampleContent(n, S, brk) ==
    IF n = 0 THEN <<>>
    ELSE SampleContent(n - 1, S, brk) \o SampleLine(n, S)
         \o (IF n % 2 = 1 THEN brk ELSE <<"\n">>)

SamplePaths ==
    {<<"P", "i", "p", "f", "i", "l", "e", ".", "l", "o", "c", "k">>,
     <<"r", "e", "q", "u", "i", "r", "e", "m", "e", "n", "t", "s", ".", "t", "x",
       "t">>}

SampleBreaks == {<<"\r", "\n">>}

(***************************************************************************)
(* Values of the request variables before they are assigned                *)
(***************************************************************************)
NoCalls == [tree |-> 0, content |-> <<>>, llm |-> 0]
NoTreeResponse == [raised |-> FALSE, status_code |-> 0, valid_json |-> FALSE,
                   tree |-> {}]
NoJson == [kind |-> "none", type |-> None,
           content |-> [present |-> FALSE, b64_valid |-> FALSE,
                        utf8_valid |-> FALSE, text |-> <<>>]]
NoResponse == [path |-> <<>>, raised |-> FALSE, status_code |-> 0, json |-> NoJson]
NoLLM == [raised |-> FALSE, content |-> <<>>]
NoBody == [ok |-> FALSE, kind |-> "none", items |-> <<>>]

\* the request variables while only a helper is exercised
NoRequest ==
    /\ repo_url = <<>> /\ max_lines = 0 /\ owner = <<>> /\ repo = <<>>
    /\ calls = NoCalls /\ tree_resp = NoTreeResponse
    /\ file_paths = {} /\ relevant_paths = {} /\ pending = {}
    /\ content_resp = NoResponse /\ results = <<>> /\ llm = NoLLM
    /\ status = 0 /\ detail = None /\ body = NoBody

RequestVars == <<repo_url, max_lines, owner, repo, calls, tree_resp, file_paths,
                 relevant_paths, pending, content_resp, results, llm, status,
                 detail, body>>

InitCondense ==
    /\ pc = "call"
    /\ \E p \in SamplePaths, n \in 0..MaxContentLines, brk \in SampleBreaks,
          m \in MinMaxLines..MaxLinesHi :
            \E S \in SUBSET (1..n) :
                arg = [filepath |-> p, content |-> SampleContent(n, S, brk),
                       max_lines |-> m]
    /\ ret = <<>>
    /\ NoRequest

\* lines 227-236 applied to one decoded file
ApplyCondense ==
    /\ pc = "call"
    /\ "content" \in DOMAIN arg
    /\ ret' = Condense(arg.filepath, arg.content, arg.max_lines)
    /\ pc' = "returned"
    /\ UNCHANGED <<arg, RequestVars>>

NextCondense == ApplyCondense

SpecCondense == InitCondense /\ [][NextCondense]_vars

(***************************************************************************)
(* The remote services: what the repo host and the LLM may answer          *)
(***************************************************************************)
\* the most entries a modelled tree listing has
MaxTreeItems == 4
\* the most members a modelled LLM JSON object has
MaxMembers == 3
\* the longest repository-name segment of a modelled URL
MaxRepoLen == 3

P_requirements == <<"r", "e", "q", "u", "i", "r", "e", "m", "e", "n", "t", "s", ".",
                    "t", "x", "t">>
P_readme == <<"R", "E", "A", "D", "M", "E", ".", "m", "d">>
P_workflow == <<".", "g", "i", "t", "h", "u", "b", "/", "w", "o", "r", "k", "f", "l",
                "o", "w", "s", "/", "c", "i", ".", "y", "m", "l">>
P_nested_package == <<"n", "o", "d", "e", "_", "m", "o", "d", "u", "l", "e", "s", "/",
                      "f", "o", "o", "/", "p", "a", "c", "k", "a", "g", "e", ".",
                      "j", "s", "o", "n">>
P_yarn_lock == <<"y", "a", "r", "n", ".", "l", "o", "c", "k">>
P_main_py == <<"s", "r", "c", "/", "m", "a", "i", "n", ".", "p", "y">>
P_src == <<"s", "r", "c">>

\* the entries a tree listing is drawn from
TreeUniverse ==
    {[path |-> P_requirements, type |-> "blob"],
     [path |-> P_readme, type |-> "blob"],
     [path |-> P_workflow, type |-> "blob"],
     [path |-> P_nested_package, type |-> "blob"],
     [path |-> P_yarn_lock, type |-> "blob"],
     [path |-> P_main_py, type |-> "blob"],
     [path |-> P_src, type |-> "tree"]}

\* requests.get(tree_url): an exception, a status, or 200 with a body
TreeResponses ==
    {[raised |-> TRUE, status_code |-> 0, valid_json |-> FALSE, tree |-> {}]}
    \cup {[raised |-> FALSE, status_code |-> c, valid_json |-> FALSE, tree |-> {}] :
            c \in {401, 404, 403, 500}}
    \cup {[raised |-> FALSE, status_code |-> 200, valid_json |-> FALSE, tree |-> {}]}
    \cup {[raised |-> FALSE, status_code |-> 200, valid_json |-> TRUE, tree |-> t] :
            t \in {u \in SUBSET TreeUniverse : Cardinality(u) <= MaxTreeItems}}

\* a decoded file: one important line, then more plain lines than max_lines
FileContent == <<"a", "@", "1", "\r", "\n">>
               \o SampleContent(MinMaxLines + 2, {}, <<"\n">>)
FileContents == {FileContent}

FileJson(present, b64, utf8, text) ==
    [kind |-> "dict", type |-> "file",
     content |-> [present |-> present, b64_valid |-> b64, utf8_valid |-> utf8,
                  text |-> text]]

\* requests.get(content_url) for path p
ContentResponses(p) ==
    {[path |-> p, raised |-> TRUE, status_code |-> 0, json |-> NoJson],
     [path |-> p, raised |-> FALSE, status_code |-> 404, json |-> NoJson],
     [path |-> p, raised |-> FALSE, status_code |-> 200,
      json |-> [NoJson EXCEPT !.kind = "invalid"]],
     [path |-> p, raised |-> FALSE, status_code |-> 200,
      json |-> [NoJson EXCEPT !.kind = "list"]],
     [path |-> p, raised |-> FALSE, status_code |-> 200,
      json |-> [NoJson EXCEPT !.kind = "dict", !.type = "symlink"]],
     [path |-> p, raised |-> FALSE, status_code |-> 200,
      json |-> FileJson(FALSE, FALSE, FALSE, <<>>)],
     [path |-> p, raised |-> FALSE, status_code |-> 200,
      json |-> FileJson(TRUE, FALSE, FALSE, <<>>)],
     [path |-> p, raised |-> FALSE, status_code |-> 200,
      json |-> FileJson(TRUE, TRUE, FALSE, <<>>)]}
    \cup {[path |-> p, raised |-> FALSE, status_code |-> 200,
           json |-> FileJson(TRUE, TRUE, TRUE, c)] : c \in FileContents}

\* the sequences of at most n distinct member tokens of M
RECURSIVE MemberSeqs(_, _)
MemberSeqs(M, n) ==
    IF n = 0 THEN {<<>>}
    ELSE LET shorter == MemberSeqs(M, n - 1)
         IN shorter \cup {Append(q, m) : <<q, m>> \in
                            {qm \in shorter \X M : qm[2] \notin Range(qm[1])}}

\* member , member , ... between braces
RECURSIVE CommaJoin(_)
CommaJoin(ms) ==
    IF Len(ms) <= 1 THEN ms
    ELSE <<ms[1], COMMA>> \o CommaJoin(Tail(ms))

ObjectText(ms) == <<LBRACE>> \o CommaJoin(ms) \o <<RBRACE>>

\* the JSON objects with at most MaxMembers distinct members of M
LLMObjects(M) == {ObjectText(ms) : ms \in MemberSeqs(M, MaxMembers)}

\* what else the model may put where the JSON object is asked for
LLMNonObjects(M) ==
    {<<LBRACE>> \o CommaJoin(ms) \o <<COMMA, RBRACE>> :
        ms \in MemberSeqs(M, 1) \ {<<>>}}
    \cup {<<>>, <<ARRAY>>, <<PROSE>>, <<LBRACE>>}

LLMBodies(M) == LLMObjects(M) \cup LLMNonObjects(M)

BareWrappers == {[pre |-> <<>>, post |-> <<>>]}
FenceWrappers == {[pre |-> <<FENCE, TAG, WS>>, post |-> <<WS, FENCE>>]}
OtherWrappers ==
    {[pre |-> <<WS>>, post |-> <<WS>>],
     [pre |-> <<FENCE>>, post |-> <<FENCE>>],
     [pre |-> <<PROSE, WS, FENCE, TAG>>, post |-> <<FENCE, WS, PROSE>>],
     [pre |-> <<PROSE, WS>>, post |-> <<>>],
     [pre |-> <<FENCE, TAG>>, post |-> <<>>]}

\* llm.invoke(prompt): an exception, or a response with some text
LLMOutcomes(bodies, wrappers) ==
    {[raised |-> TRUE, content |-> <<>>]}
    \cup {[raised |-> FALSE, content |-> w.pre \o b \o w.post] :
            w \in wrappers, b \in bodies}

AnalyzeMembers == {"analysis_dict", "steps_list"}
GenerateMembers == {"yaml_str", "yaml_null", "manual_str", "suggestions_list"}

(***************************************************************************)
(* POST /analyze                                                           *)
(***************************************************************************)
HttpPrefix == <<"h", "t", "t", "p", ":", "/", "/", "g", "i", "t", "h", "u", "b", ".",
                "c", "o", "m", "/">>
PsfRequests == <<"p", "s", "f", "/", "r", "e", "q", "u", "e", "s", "t", "s">>

RequestUrls == {GithubPrefix \o PsfRequests, HttpPrefix \o PsfRequests}

InitAnalyze ==
    /\ pc = "received"
    /\ repo_url \in RequestUrls
    /\ max_lines \in (MinMaxLines - 1)..(MinMaxLines + 1)
    /\ owner = <<>> /\ repo = <<>>
    /\ calls = NoCalls /\ tree_resp = NoTreeResponse
    /\ file_paths = {} /\ relevant_paths = {} /\ pending = {}
    /\ content_resp = NoResponse
    /\ results = <<>>
    /\ llm = NoLLM
    /\ status = 0 /\ detail = None /\ body = NoBody
    /\ arg = <<>> /\ ret = <<>>

\* the response of a request that ends with an error status
Respond(code, text) ==
    /\ status' = code
    /\ detail' = text
    /\ body' = NoBody
    /\ pc' = "done"

\* an exception no handler catches: the framework answers 500
Unhandled == Respond(500, "Internal Server Error")

\* The framework builds RepoAnalysisRequest from the body before it calls the
\* handler; a validator that raises, or a Field bound that fails, ends the
\* request with the framework's 422.
ValidateRequest ==
    /\ pc = "received"
    /\ LET v == validate_github_url(repo_url) IN
       IF v.ok /\ max_lines >= MinMaxLines /\ max_lines <= MaxMaxLines
       THEN /\ repo_url' = v.value
            /\ pc' = "validated"
            /\ UNCHANGED <<status, detail, body>>
       ELSE /\ Respond(422, "Unprocessable Entity")
            /\ UNCHANGED repo_url
    /\ UNCHANGED <<max_lines, owner, repo, calls, tree_resp, file_paths,
                   relevant_paths, pending, content_resp, results, llm, arg, ret>>

\* analyze_repo, lines 142-145
ParseOwnerRepo ==
    /\ pc = "validated"
    /\ LET r == parse_owner_repo(repo_url) IN
       IF r.ok
       THEN /\ owner' = r.owner
            /\ repo' = r.repo
            /\ pc' = "parsed"
            /\ UNCHANGED <<status, detail, body>>
       ELSE /\ Respond(400, "Invalid repo URL")
            /\ UNCHANGED <<owner, repo>>
    /\ UNCHANGED <<repo_url, max_lines, calls, tree_resp, file_paths,
                   relevant_paths, pending, content_resp, results, llm, arg, ret>>

\* TreeFailure without the 404 branch
TreeFailure_No404(resp) ==
    IF resp.raised THEN [code |-> 500, text |-> "Failed to reach GitHub API"]
    ELSE IF resp.status_code = 401
         THEN [code |-> 401, text |-> "Invalid or insufficient GitHub token"]
    ELSE IF resp.status_code # 200
         THEN [code |-> 502, text |-> "GitHub API returned an error"]
    ELSE IF ~resp.valid_json
         THEN [code |-> 500, text |-> "Internal Server Error"]
    ELSE [code |-> 0, text |-> None]

\* the status and detail analyze_repo raises for a tree response (0: none)
TreeFailure(resp) ==
    IF resp.raised THEN [code |-> 500, text |-> "Failed to reach GitHub API"]
    ELSE IF resp.status_code = 401
         THEN [code |-> 401, text |-> "Invalid or insufficient GitHub token"]
    ELSE IF resp.status_code = 404
         THEN [code |-> 404, text |-> "Repository or branch not found"]
    ELSE IF resp.status_code # 200
         THEN [code |-> 502, text |-> "GitHub API returned an error"]
    ELSE IF ~resp.valid_json
         THEN [code |-> 500, text |-> "Internal Server Error"]
    ELSE [code |-> 0, text |-> None]

\* analyze_repo, lines 155-205: the tree listing and the relevance filter
FetchTree ==
    /\ pc = "parsed"
    /\ \E resp \in TreeResponses :
        LET failure == TreeFailure(resp) IN
        /\ tree_resp' = resp
        /\ calls' = [calls EXCEPT !.tree = @ + 1]
        /\ IF failure.code # 0
           THEN /\ Respond(failure.code, failure.text)
                /\ UNCHANGED <<file_paths, relevant_paths, pending>>
           ELSE /\ file_paths' = {item.path : item \in
                                    {it \in resp.tree : it.type = "blob"}}
                /\ relevant_paths' = RelevantPaths(file_paths')
                /\ pending' = relevant_paths'
                /\ pc' = "fetching"
                /\ UNCHANGED <<status, detail, body>>
    /\ UNCHANGED <<repo_url, max_lines, owner, repo, content_resp, results, llm,
                   arg, ret>>

\* What one iteration of the "for filepath" loop does with the response:
\* "skip" (continue), "raise" (an exception leaves the handler) or "store".
ContentOutcome(resp) ==
    IF resp.raised THEN "skip"
    ELSE IF resp.status_code # 200 THEN "skip"
    ELSE IF resp.json.kind = "invalid" THEN "raise"
    ELSE IF resp.json.kind # "dict" THEN "raise"
    ELSE IF resp.json.type # "file" THEN "skip"
    ELSE IF ~resp.json.content.present THEN "raise"
    ELSE IF ~resp.json.content.b64_valid THEN "skip"
    ELSE IF ~resp.json.content.utf8_valid THEN "skip"
    ELSE "store"

\* base64.b64decode(data["content"]).decode("utf-8") of a response stored
DecodedContent(resp) == resp.json.content.text

CountCall(counts, p) ==
    IF p \in DOMAIN counts THEN [counts EXCEPT ![p] = @ + 1]
    ELSE (p :> 1) @@ counts

\* FetchContent with a skipped file left in the loop, to be fetched again
FetchContent_Retry ==
    /\ pc = "fetching"
    /\ \E filepath \in pending :
        \E resp \in ContentResponses(filepath) :
            LET outcome == ContentOutcome(resp) IN
            /\ calls' = [calls EXCEPT !.content = CountCall(@, filepath)]
            /\ content_resp' = resp
            /\ pending' = IF outcome = "skip" THEN pending ELSE pending \ {filepath}
            /\ IF outcome = "raise"
               THEN Unhandled
               ELSE UNCHANGED <<pc, status, detail, body>>
            /\ IF outcome = "store"
               THEN results' = (filepath :> Condense(filepath, DecodedContent(resp),
                                                     max_lines)) @@ results
               ELSE UNCHANGED results
    /\ UNCHANGED <<repo_url, max_lines, owner, repo, tree_resp, file_paths,
                   relevant_paths, llm, arg, ret>>

\* analyze_repo, lines 209-236: one iteration of the loop over relevant_paths
FetchContent ==
    /\ pc = "fetching"
    /\ \E filepath \in pending :
        \E resp \in ContentResponses(filepath) :
            LET outcome == ContentOutcome(resp) IN
            /\ calls' = [calls EXCEPT !.content = CountCall(@, filepath)]
            /\ content_resp' = resp
            /\ pending' = pending \ {filepath}
            /\ IF outcome = "raise"
               THEN Unhandled
               ELSE UNCHANGED <<pc, status, detail, body>>
            /\ IF outcome = "store"
               THEN results' = (filepath :> Condense(filepath, DecodedContent(resp),
                                                     max_lines)) @@ results
               ELSE UNCHANGED results
    /\ UNCHANGED <<repo_url, max_lines, owner, repo, tree_resp, file_paths,
                   relevant_paths, llm, arg, ret>>

\* what analyze_repo answers for the value extract_json_from_llm_output gave
AnalyzeAnswer(parsed) ==
    IF ~parsed.ok THEN [code |-> 500, text |-> "Failed to analyze repository",
                        body |-> NoBody]
    ELSE IF parsed.kind # "dict"
         THEN [code |-> 500, text |-> "Internal Server Error", body |-> NoBody]
    ELSE [code |-> 200, text |-> None, body |-> parsed]

\* analyze_repo, lines 238-280: the snapshot, the LLM call and the answer
CallLLM ==
    /\ pc = "fetching"
    /\ pending = {}
    /\ \E out \in LLMOutcomes(LLMBodies(AnalyzeMembers), BareWrappers)
                  \cup LLMOutcomes(LLMObjects(AnalyzeMembers), FenceWrappers) :
        LET answer == IF out.raised
                      THEN [code |-> 500, text |-> "Failed to analyze repository",
                            body |-> NoBody]
                      ELSE AnalyzeAnswer(extract_json_from_llm_output(out.content))
        IN /\ llm' = out
           /\ calls' = [calls EXCEPT !.llm = @ + 1]
           /\ status' = answer.code
           /\ detail' = answer.text
           /\ body' = answer.body
           /\ pc' = "done"
    \* the loop is over: its local content_resp is no longer in use
    /\ content_resp' = NoResponse
    /\ UNCHANGED <<repo_url, max_lines, owner, repo, tree_resp, file_paths,
                   relevant_paths, pending, results, arg, ret>>

Next == ValidateRequest \/ ParseOwnerRepo \/ FetchTree \/ FetchContent \/ CallLLM

Spec == InitAnalyze /\ [][Next]_vars

(***************************************************************************)
(* The repo_url validator and parse_owner_repo on bounded URLs             *)
(***************************************************************************)
RepoAlphabet == {"r", "t", ".", "g", "i"}

\* the strings over A of length at most n
RECURSIVE StrsUpTo(_, _)
StrsUpTo(A, n) ==
    IF n = 0 THEN {<<>>}
    ELSE LET shorter == StrsUpTo(A, n - 1)
         IN shorter \cup {Append(q, c) : <<q, c>> \in shorter \X A}

UrlPrefixes == {GithubPrefix, HttpPrefix, <<" ">> \o GithubPrefix}
UrlOwners == {<<"p", "s", "f">>, <<>>}
UrlSuffixes == {<<>>, DotGit, <<"/">>, <<"/", "x">>}

InitUrl ==
    /\ pc = "received"
    /\ \E pre \in UrlPrefixes, o \in UrlOwners, suf \in UrlSuffixes :
        \E name \in StrsUpTo(RepoAlphabet, MaxRepoLen) :
            repo_url = pre \o o \o <<"/">> \o name \o suf
    /\ max_lines = MinMaxLines
    /\ owner = <<>> /\ repo = <<>>
    /\ calls = NoCalls /\ tree_resp = NoTreeResponse
    /\ file_paths = {} /\ relevant_paths = {} /\ pending = {}
    /\ content_resp = NoResponse
    /\ results = <<>>
    /\ llm = NoLLM
    /\ status = 0 /\ detail = None /\ body = NoBody
    /\ arg = <<>> /\ ret = <<>>

NextUrl == ValidateRequest \/ ParseOwnerRepo

SpecUrl == InitUrl /\ [][NextUrl]_vars

(***************************************************************************)
(* POST /generate-pipeline                                                 *)
(***************************************************************************)
NotParsed == [ok |-> FALSE, kind |-> "not called", items |-> <<>>]

InitGenerate ==
    /\ pc = "received"
    /\ ret = NotParsed
    /\ arg = <<>>
    /\ NoRequest

\* whether generate_pipeline reaches extract_json_from_llm_output
ReachesParser(out) == ~out.raised /\ Strip(out.content) # <<>>

\* GeneratedPipeline(...) built from the parsed dict
BuildPipeline(items) ==
    [ok |-> TRUE, kind |-> "GeneratedPipeline",
     items |-> [github_actions_yaml |-> items["github_actions_yaml"],
                manual_instructions |-> items["manual_instructions"],
                suggestions |-> IF "suggestions" \in DOMAIN items
                                THEN items["suggestions"] ELSE "empty list"]]

ParseFailed == [code |-> 500, body |-> NoBody,
                text |-> "Failed to parse pipeline generation response"]
GenerationFailed == [code |-> 500, body |-> NoBody,
                     text |-> "Failed to generate pipeline"]

\* GenerateAnswer with a missing manual_instructions defaulted
GenerateAnswer_DefaultKeys(out) ==
    IF out.raised THEN GenerationFailed
    ELSE IF Strip(out.content) = <<>> THEN ParseFailed
    ELSE LET parsed == extract_json_from_llm_output(out.content) IN
         IF ~parsed.ok THEN ParseFailed
         ELSE IF parsed.kind # "dict" THEN GenerationFailed
         ELSE IF "github_actions_yaml" \notin DOMAIN parsed.items
              THEN GenerationFailed
         ELSE IF parsed.items["github_actions_yaml"] # "str" THEN ParseFailed
         ELSE [code |-> 200, text |-> None,
               body |-> BuildPipeline(("manual_instructions" :> "str")
                                      @@ parsed.items)]

\* generate_pipeline, lines 345-370: the answer for an outcome of llm.invoke
GenerateAnswer(out) ==
    IF out.raised THEN GenerationFailed
    ELSE IF Strip(out.content) = <<>> THEN ParseFailed
    ELSE LET parsed == extract_json_from_llm_output(out.content) IN
         IF ~parsed.ok THEN ParseFailed
         ELSE IF parsed.kind # "dict" THEN GenerationFailed
         ELSE IF "github_actions_yaml" \notin DOMAIN parsed.items
              THEN GenerationFailed
         ELSE IF "manual_instructions" \notin DOMAIN parsed.items
              THEN GenerationFailed
         ELSE IF parsed.items["github_actions_yaml"] # "str" THEN ParseFailed
         ELSE [code |-> 200, body |-> BuildPipeline(parsed.items), text |-> None]

\* generate_pipeline, lines 288-370
GeneratePipeline ==
    /\ pc = "received"
    /\ \E out \in LLMOutcomes(LLMBodies(GenerateMembers),
                              BareWrappers \cup FenceWrappers \cup OtherWrappers) :
        LET answer == GenerateAnswer(out) IN
        /\ llm' = out
        /\ calls' = [calls EXCEPT !.llm = @ + 1]
        /\ ret' = IF ReachesParser(out)
                  THEN extract_json_from_llm_output(out.content)
                  ELSE NotParsed
        /\ status' = answer.code
        /\ detail' = answer.text
        /\ body' = answer.body
        /\ pc' = "done"
    /\ UNCHANGED <<repo_url, max_lines, owner, repo, tree_resp, file_paths,
                   relevant_paths, pending, content_resp, results, arg>>

NextGenerate == GeneratePipeline

SpecGenerate == InitGenerate /\ [][NextGenerate]_vars

(***************************************************************************)
(* Properties                                                              *)
(***************************************************************************)
\* C1: in POST /analyze a tree response that is not a 200 ends the request:
\* 401 gives status 401 with the detail "Invalid or insufficient GitHub
\* token", 404 gives 404, any other status gives 502, a transport failure
\* gives 500; and no content fetch and no LLM call is made.
C1_TreeFailureIsFatal ==
    (calls.tree = 1 /\ (tree_resp.raised \/ tree_resp.status_code # 200)) =>
        /\ pc = "done"
        /\ tree_resp.raised => status = 500
        /\ (~tree_resp.raised /\ tree_resp.status_code = 401) =>
              (status = 401 /\ detail = "Invalid or insufficient GitHub token")
        /\ (~tree_resp.raised /\ tree_resp.status_code = 404) => status = 404
        /\ (~tree_resp.raised /\ tree_resp.status_code \notin {401, 404}) =>
              status = 502
        /\ calls.content = <<>>
        /\ calls.llm = 0

C1_Witness ==
    /\ pc = "done"
    /\ calls.tree = 1
    /\ tree_resp.status_code = 404
    /\ status = 404

\* what makes a content response a failed fetch: a network error, a status
\* other than 200, a body that is not JSON or not a file object, no content
\* field, or content that does not decode
IsFailedFetch(resp) ==
    \/ resp.raised
    \/ resp.status_code # 200
    \/ resp.json.kind # "dict"
    \/ resp.json.type # "file"
    \/ ~resp.json.content.present
    \/ ~resp.json.content.b64_valid
    \/ ~resp.json.content.utf8_valid

\* C2: after a failed content fetch the file is skipped and absent from
\* results, and the request goes on (to the other files and the LLM call)
\* instead of ending with an error.
C2_FetchFailureNeverPropagates ==
    (content_resp # NoResponse /\ IsFailedFetch(content_resp)) =>
        /\ pc = "fetching"
        /\ status = 0
        /\ content_resp.path \notin DOMAIN results

C3_Tree == {P_requirements, P_readme, P_workflow, P_nested_package}

\* C3 as stated: for the tree of requirements.txt, README.md,
\* .github/workflows/ci.yml and node_modules/foo/package.json the relevant
\* set includes the first three and excludes the fourth.
C3_AsStated ==
    (pc = "fetching" /\ file_paths = C3_Tree) =>
        /\ {P_requirements, P_readme, P_workflow} \subseteq relevant_paths
        /\ P_nested_package \notin relevant_paths

\* C3 amended: for a tree holding these four blobs the relevant set includes
\* all four (node_modules/foo/package.json ends with "/package.json"), and
\* holds only blobs of the tree, never src/main.py.
C3_NestedManifestIsRelevant ==
    (pc = "fetching" /\ C3_Tree \subseteq file_paths) =>
        /\ C3_Tree \subseteq relevant_paths
        /\ relevant_paths \subseteq file_paths \ {P_main_py}

C3_Witness ==
    /\ pc = "fetching"
    /\ file_paths = C3_Tree
    /\ relevant_paths = C3_Tree
    /\ pending = C3_Tree

\* the predicate of C4 on one line: it contains "version" or "resolved"
\* whatever the case of the letters, or contains "@"
SatisfiesPredicate(line) ==
    \E i \in DOMAIN line :
        \/ line[i] = "@"
        \/ \E w \in {VersionWord, ResolvedWord} :
              /\ i + Len(w) - 1 <= Len(line)
              /\ \A k \in DOMAIN w : LowerChar(line[i + k - 1]) = w[k]

\* a is b with some elements left out, the order kept
RECURSIVE IsSubsequence(_, _)
IsSubsequence(a, b) ==
    IF a = <<>> THEN TRUE
    ELSE IF b = <<>> THEN FALSE
    ELSE IF Head(a) = Head(b) THEN IsSubsequence(Tail(a), Tail(b))
    ELSE IsSubsequence(a, Tail(b))

\* C4: for a path with a large-file suffix and max_lines in [10, 100000]: if
\* some line satisfies the predicate, the output holds only lines that
\* satisfy it, in their original order, and at most max_lines of them; if
\* none does, the output is the first max_lines raw lines.
C4_CondenseKeepsImportantLines ==
    (pc = "returned" /\ IsLargeFile(arg.filepath)) =>
        LET raw == SplitLines(arg.content)
            out == Split(ret, "\n")
        IN IF \E i \in DOMAIN raw : SatisfiesPredicate(raw[i])
           THEN /\ \A k \in DOMAIN out : SatisfiesPredicate(out[k])
                /\ IsSubsequence(out, raw)
                /\ Len(out) <= arg.max_lines
           ELSE ret = JoinLines(Take(raw, arg.max_lines))

\* more important lines than max_lines: the output is cut to max_lines
C4_Witness ==
    /\ pc = "returned"
    /\ IsLargeFile(arg.filepath)
    /\ Len(SelectSeq(SplitLines(arg.content), SatisfiesPredicate)) > arg.max_lines
    /\ Len(Split(ret, "\n")) = arg.max_lines

\* the scenario of C4: three important lines among more than max_lines
C4_ThreeLines ==
    /\ pc = "returned"
    /\ IsLargeFile(arg.filepath)
    /\ arg.max_lines = MinMaxLines
    /\ Len(SplitLines(arg.content)) > arg.max_lines
    /\ Len(SelectSeq(SplitLines(arg.content), SatisfiesPredicate)) = 3
    /\ Len(Split(ret, "\n")) = 3

\* C5: a path with no large-file suffix is stored in results with exactly
\* the decoded content of its response, and what is stored stays.
C5_OtherFilesStoredUnchanged ==
    [][/\ \A p \in DOMAIN results :
            p \in DOMAIN results' /\ results'[p] = results[p]
       /\ \A p \in DOMAIN results' \ DOMAIN results :
            ~IsLargeFile(p) =>
                /\ content_resp'.path = p
                /\ results'[p] = DecodedContent(content_resp')]_vars

\* README.md stored whole although it has more lines than max_lines
C5_Witness ==
    /\ content_resp.path = P_readme
    /\ P_readme \in DOMAIN results
    /\ results[P_readme] = FileContent
    /\ Len(SplitLines(results[P_readme])) > max_lines

\* C6: POST /generate-pipeline answers 500 with no body when the LLM call
\* fails, the text is empty or whitespace, no JSON object parses from it, or
\* a required key is missing; empty text never reaches the parser; and a 200
\* carries a GeneratedPipeline built from both keys, suggestions being the
\* given list or else the empty list.
C6_GenerateAllOrNothing ==
    (pc = "done") =>
        /\ status \in {200, 500}
        /\ (\/ llm.raised
            \/ Strip(llm.content) = <<>>
            \/ ~ret.ok
            \/ ret.kind # "dict"
            \/ "github_actions_yaml" \notin DOMAIN ret.items
            \/ "manual_instructions" \notin DOMAIN ret.items)
              => (status = 500 /\ body = NoBody)
        /\ (\A i \in DOMAIN llm.content : llm.content[i] = WS) => ret = NotParsed
        /\ status = 200 =>
              /\ body.kind = "GeneratedPipeline"
              /\ {"github_actions_yaml", "manual_instructions"}
                    \subseteq DOMAIN ret.items
              /\ body.items.github_actions_yaml = ret.items["github_actions_yaml"]
              /\ body.items.manual_instructions = ret.items["manual_instructions"]
              /\ body.items.suggestions =
                    IF "suggestions" \in DOMAIN ret.items
                    THEN ret.items["suggestions"] ELSE "empty list"

\* a fenced object with both keys and no suggestions: 200, suggestions empty
C6_Witness ==
    /\ pc = "done"
    /\ status = 200
    /\ FENCE \in Range(llm.content)
    /\ "suggestions" \notin DOMAIN ret.items
    /\ body.items.suggestions = "empty list"

\* C7: POST /analyze ends with an error status or with a JSON object that
\* holds both project_analysis and ci_pipeline_steps.
C7_NoPartialAnalysis ==
    (pc = "done") =>
        \/ status >= 400
        \/ /\ status = 200
           /\ body.kind = "dict"
           /\ {"project_analysis", "ci_pipeline_steps"} \subseteq DOMAIN body.items

\* C8: a request whose URL does not match the pattern is answered 400, and
\* no remote call is made for it.
C8_InvalidUrlIs400 ==
    (pc = "done" /\ max_lines >= MinMaxLines
                 /\ PatternMatches(Strip(repo_url)) = {}) =>
        /\ status = 400
        /\ calls = NoCalls

\* the remote calls of one request, as far as the state tells
CallsInOrder ==
    /\ calls.tree = IF pc \in {"received", "validated", "parsed"}
                       \/ status \in {422, 400}
                    THEN 0 ELSE 1
    /\ calls.llm <= 1
    /\ \A p \in DOMAIN calls.content : calls.content[p] = 1
    /\ DOMAIN calls.content = relevant_paths \ pending
    /\ DOMAIN results \subseteq DOMAIN calls.content
    /\ (calls.content # <<>> \/ calls.llm > 0) => calls.tree = 1
    /\ calls.llm > 0 => (pending = {} /\ pc = "done")

\* one step of a request: a content fetch follows the tree listing, the LLM
\* call follows the last content fetch, a key of results is written once,
\* and nothing is called again
CallsStep ==
    /\ calls'.tree >= calls.tree
    /\ calls'.content # calls.content => (calls.tree = 1 /\ calls.llm = 0)
    /\ calls'.llm # calls.llm =>
          (pending = {} /\ DOMAIN calls.content = relevant_paths
           /\ calls'.content = calls.content)
    /\ \A p \in DOMAIN calls.content :
          p \in DOMAIN calls'.content /\ calls'.content[p] = calls.content[p]
    /\ \A p \in DOMAIN results :
          p \in DOMAIN results' /\ results'[p] = results[p]
    /\ pc = "done" => calls' = calls

\* C9: the tree listing is requested once and before any content fetch, each
\* relevant path is fetched at most once, the LLM is invoked at most once and
\* only after every content fetch, and no call is issued again.
C9_CallsOnceInOrder == []CallsInOrder /\ [][CallsStep]_vars

\* a request that skipped one file, stored another and called the LLM
C9_Witness ==
    /\ pc = "done"
    /\ calls.llm = 1
    /\ calls.tree = 1
    /\ Cardinality(DOMAIN calls.content) >= 2
    /\ DOMAIN results # {}
    /\ DOMAIN results # DOMAIN calls.content

\* C10: for an accepted URL parse_owner_repo returns the owner and the
\* repository name the validator's pattern captures.
C10_ParseMatchesValidator ==
    (pc = "parsed") =>
        /\ owner = PatternGroups(repo_url)[1]
        /\ repo = PatternGroups(repo_url)[2]

====
